---------------------------- MODULE Spec2Model ----------------------------
(***************************************************************************)
(* A model of the PDF image extractor: the page-range parser, the          *)
(* single-document extractor, the batch orchestrator, the run report and   *)
(* the Tk front end with its worker thread (src/gui.py), together with the *)
(* command-line variant of the parser and extractor (src/main.py,          *)
(* src/pdf-image-extractor.py).                                            *)
(*                                                                         *)
(* Text is modelled as a sequence of one-character strings.  The PyMuPDF   *)
(* library and the file system are the environment: every call into them   *)
(* succeeds or raises, chosen nondeterministically.                        *)
(***************************************************************************)
EXTENDS Integers, Sequences, FiniteSets, TLC

(***************************************************************************)
(* Bounds of the model.                                                    *)
(***************************************************************************)
\* longest page selector enumerated for the parser
MaxLen == 4
\* largest page count handed to the parser
MaxPageCount == 3

\* library and file-system calls that fail in one worker run
MaxFaults == 2
\* documents in the batch input folder
NumDocs == 3
\* largest suffix among the files already in the output folder
MaxOldSuffix == 2
\* worker threads the front end creates in one behaviour
MaxThreads == 2
\* FileResults and global errors added to the report under test
MaxFiles == 2
\* largest images_extracted and page_pngs of a FileResult added to it
MaxCount == 2

VARIABLES
    p_pages,      \* parser input: the selector (NoneSel for None)
    p_max,        \* parser input: max_page
    p_variant,    \* "none" before the call, then "gui" or "cli"; "off": no call
    p_res,        \* what the call returned: [ok, val]
    r_report,     \* an ExtractionReport driven call by call
    cli,          \* one run of the command-line program: position, locals, exit status
    gui,          \* PDFExtractorGUI: running, the Tk variables, _stop_event, dialog
    wk,           \* per worker thread: position and locals of _worker and its callees
    stop,         \* per worker thread: the threading.Event it was started with
    log_queue,    \* self.log_queue
    fs,           \* files on disk: path -> content
    dirs,         \* directories on disk
    layout,       \* the pages of every input document: per page its image xrefs
    faults,       \* library and file-system calls that may still fail
    events        \* history, per thread: every image reached by the image loop, every
                  \* page render, the report write

parseVars == <<p_pages, p_max, p_variant, p_res, r_report, cli>>

runVars == <<gui, wk, stop, log_queue, fs, dirs, layout, faults, events>>

vars == <<p_pages, p_max, p_variant, p_res, r_report, cli,
          gui, wk, stop, log_queue, fs, dirs, layout, faults, events>>

(***************************************************************************)
(* Text helpers: Python's str.strip, str.split and int.                    *)
(***************************************************************************)
\* the characters a selector is built from; "x" stands for any other letter
Alphabet == {"0", "1", "2", ",", "-", " ", "x"}

Digits == {"0", "1", "2"}

\* None, as distinct from every text
NoneSel == <<"None">>

\* value of one decimal digit
DigitVal(c) == CASE c = "0" -> 0 [] c = "1" -> 1 [] c = "2" -> 2 [] OTHER -> 0

\* the least and the greatest element of a non-empty finite set of integers
Least(S) == CHOOSE x \in S : \A y \in S : x <= y

Greatest(S) == CHOOSE x \in S : \A y \in S : x >= y

\* str.strip(): what lies between the first and the last character that is not
\* whitespace
Strip(s) ==
    LET inked == {i \in 1..Len(s) : s[i] # " "}
    IN  IF inked = {} THEN <<>> ELSE SubSeq(s, Least(inked), Greatest(inked))

\* the positions of character c in s
Positions(s, c) == {i \in 1..Len(s) : s[i] = c}

\* index of the first occurrence of character c in s, 0 when absent
IndexOf(s, c) == IF Positions(s, c) = {} THEN 0 ELSE Least(Positions(s, c))

\* str.split(c): the pieces between the occurrences of c (k occurrences give
\* k+1 pieces): piece k runs from after the (k-1)-th occurrence to before the k-th
Split(s, c) ==
    LET cuts == Positions(s, c) \cup {0, Len(s) + 1}
    IN  [k \in 1..(Cardinality(cuts) - 1) |->
            LET from == CHOOSE a \in cuts : Cardinality({x \in cuts : x < a}) = k - 1
                to == CHOOSE b \in cuts : Cardinality({x \in cuts : x < b}) = k
            IN  SubSeq(s, from + 1, to - 1)]

RECURSIVE DigitsVal(_, _)
\* the decimal value of a run of digits, most significant first
DigitsVal(s, acc) ==
    IF s = <<>> THEN acc ELSE DigitsVal(Tail(s), 10 * acc + DigitVal(Head(s)))

\* int(s): surrounding whitespace dropped, an optional sign, then one or more
\* digits; anything else raises ValueError (ok = FALSE)
IntOf(s) ==
    LET t == Strip(s)
        neg == t # <<>> /\ Head(t) = "-"
        d == IF neg THEN Tail(t) ELSE t
    IN  IF d # <<>> /\ \A i \in 1..Len(d) : d[i] \in Digits
        THEN [ok |-> TRUE, val |-> IF neg THEN 0 - DigitsVal(d, 0) ELSE DigitsVal(d, 0)]
        ELSE [ok |-> FALSE, val |-> 0]

Max(a, b) == IF a >= b THEN a ELSE b

Min(a, b) == IF a <= b THEN a ELSE b

\* sorted(S): the elements of a finite set of integers in ascending order
Sorted(S) ==
    CHOOSE seq \in [1..Cardinality(S) -> S] :
        \A i \in 1..(Len(seq) - 1) : seq[i] < seq[i + 1]

\* a list that counts from one
RangeListFromOne(n) == [i \in 1..n |-> i]

\* range(n) as a list
RangeList(n) == [i \in 1..n |-> i - 1]

(***************************************************************************)
(* parse_page_range.  A call returns [ok |-> TRUE, val |-> list] or raises *)
(* ValueError, [ok |-> FALSE, val |-> <<>>].                                *)
(***************************************************************************)
Raised == [ok |-> FALSE, val |-> <<>>]

\* a start that is not raised to the first page
RangeStartUnclamped(a) == a

\* start of a range token: max(1, int(a))
RangeStart(a) == Max(1, a)

\* an end that is not lowered to the last page
RangeEndUnclamped(b, max_page) == b

\* end of a range token: min(max_page, int(b))
RangeEnd(b, max_page) == Min(max_page, b)

\* the pages one single-page token adds: p when 1 <= p <= max_page
SinglePages(p, max_page) == IF 1 <= p /\ p <= max_page THEN {p} ELSE {}

\* a parser that takes a bad token for no pages
TokenPagesLenient(part, max_page) == [ok |-> TRUE, val |-> {}]

\* one token of the selector, already stripped and not skipped: the pages it adds
\* to wanted, or ValueError
TokenPages(part, max_page) ==
    IF IndexOf(part, "-") # 0
    THEN LET i == IndexOf(part, "-")
             a == IntOf(SubSeq(part, 1, i - 1))
             b == IntOf(SubSeq(part, i + 1, Len(part)))
         IN  IF ~a.ok \/ ~b.ok THEN [ok |-> FALSE, val |-> {}]
             ELSE LET start == RangeStart(a.val)
                      end == RangeEnd(b.val, max_page)
                  IN  [ok |-> TRUE, val |-> IF start <= end THEN start..end ELSE {}]
    ELSE LET p == IntOf(part)
         IN  IF ~p.ok THEN [ok |-> FALSE, val |-> {}]
             ELSE [ok |-> TRUE, val |-> SinglePages(p.val, max_page)]

\* gui.py skips a token that is empty once stripped; the command-line parsers
\* hand it to int()
SkipsEmpty(variant) == variant = "gui"

\* the tokens of pages.split(","), stripped, that the loop hands to int(): all of
\* them, but for the empty ones when the variant skips them
PartsRead(pages, variant) ==
    {part \in {Strip(Split(pages, ",")[k]) : k \in 1..Len(Split(pages, ","))} :
        ~(part = <<>> /\ SkipsEmpty(variant))}

\* parse_page_range(pages, max_page) of the given variant: the loop raises at
\* the first token that int() refuses, and otherwise returns the sorted list of
\* the zero-based pages that the tokens added to the set wanted
ParsePageRangeOf(pages, max_page, variant) ==
    IF pages = NoneSel \/ pages = <<>>
    THEN [ok |-> TRUE, val |-> RangeList(max_page)]
    ELSE IF \E part \in PartsRead(pages, variant) : ~TokenPages(part, max_page).ok
    THEN Raised
    ELSE [ok |-> TRUE,
          val |-> Sorted({p - 1 : p \in UNION {TokenPages(part, max_page).val :
                                                  part \in PartsRead(pages, variant)}})]

\* parse_page_range of src/gui.py
ParsePageRange(pages, max_page) == ParsePageRangeOf(pages, max_page, "gui")

\* parse_page_range of src/main.py and src/pdf-image-extractor.py
ParsePageRangeCli(pages, max_page) == ParsePageRangeOf(pages, max_page, "cli")

(***************************************************************************)
(* Documents, paths and the file system.                                   *)
(***************************************************************************)
Threads == 1..MaxThreads

\* the PDF files of the input folder "in"; the folder "one" holds the first of
\* them, the folder "empty" none
Docs == 1..NumDocs

\* sorted([p for p in input_folder.glob("*.pdf") if p.is_file()])
Glob(folder) ==
    CASE folder = "in" -> [i \in 1..NumDocs |-> i]
      [] folder = "one" -> <<1>>
      [] OTHER -> <<>>

Png == <<"p", "n", "g">>

\* base.get("ext", "bin") of doc.extract_image(xref)
ExtOf(xref) ==
    CASE xref = 2 -> <<"j", "p", "g">>
      [] xref = 3 -> <<"b", "i", "n">>
      [] OTHER -> Png

\* the characters SAFE_CHARS leaves alone, among those the model uses
SafeChars == {"p", "n", "g", "j", "b", "i", ".", "_", "@", "-"} \cup Digits

\* safe_name: every character outside [A-Za-z0-9._@-] becomes "-"
SafeName(s) == [i \in 1..Len(s) |-> IF s[i] \in SafeChars THEN s[i] ELSE "-"]

\* Path(text): the empty text is the current directory
PathOf(text) == IF text = <<>> THEN <<".">> ELSE text

\* output_folder / pdf.stem
SubDir(outdir, doc) == [root |-> outdir, sub |-> doc]

\* the output folder itself
TopDir(outdir) == [root |-> outdir, sub |-> 0]

\* output_folder / "page-NNN-img-P.ext", with "-suf" before the extension when suf > 0
ImgPath(dir, page, pos, ext, suf) ==
    [dir |-> dir,
     name |-> [kind |-> "img", page |-> page, pos |-> pos, ext |-> ext, suf |-> suf]]

\* output_folder / "page-NNN.png", or "page-NNN-n.png" when n > 0
PngPath(dir, page, n) ==
    [dir |-> dir,
     name |-> [kind |-> "png", page |-> page, pos |-> 0, ext |-> Png, suf |-> n]]

\* out_folder / "extraction_report.json"
ReportPath(dir) ==
    [dir |-> dir,
     name |-> [kind |-> "report", page |-> 0, pos |-> 0, ext |-> <<>>, suf |-> 0]]

NoPath ==
    [dir |-> TopDir(<<>>),
     name |-> [kind |-> "none", page |-> 0, pos |-> 0, ext |-> <<>>, suf |-> 0]]

\* Path.exists()
Exists(files, path) == path \in DOMAIN files

\* the file system after one file is written
WriteFile(files, path, content) ==
    [q \in DOMAIN files \cup {path} |-> IF q = path THEN content ELSE files[q]]

\* the first suffix the image collision loop tries
FirstImgSuffix == 2

RECURSIVE ProbeImg(_, _, _, _, _, _)
\* while (output_folder / f"{stem}-{suf}.{ext}").exists(): suf += 1
ProbeImg(files, dir, page, pos, ext, suf) ==
    IF Exists(files, ImgPath(dir, page, pos, ext, suf))
    THEN ProbeImg(files, dir, page, pos, ext, suf + 1)
    ELSE suf

\* a probe that does not look at the overwrite option
ImgOutPathAlwaysProbe(files, dir, page, pos, ext, overwrite) ==
    IF Exists(files, ImgPath(dir, page, pos, SafeName(ext), 0))
    THEN ImgPath(dir, page, pos, ext, ProbeImg(files, dir, page, pos, ext, FirstImgSuffix))
    ELSE ImgPath(dir, page, pos, SafeName(ext), 0)

\* the candidate path whatever is on disk
ImgOutPathNoProbe(files, dir, page, pos, ext, overwrite) ==
    ImgPath(dir, page, pos, SafeName(ext), 0)

\* the path an image is written to (gui.py 220-227, main.py 83-92)
ImgOutPath(files, dir, page, pos, ext, overwrite) ==
    LET out_path == ImgPath(dir, page, pos, SafeName(ext), 0)
    IN  IF ~overwrite /\ Exists(files, out_path)
        THEN ImgPath(dir, page, pos, ext, ProbeImg(files, dir, page, pos, ext, FirstImgSuffix))
        ELSE out_path

\* the first suffix the page-render collision loop of gui.py tries
FirstPngSuffix == 1

RECURSIVE ProbePng(_, _, _, _)
\* while (output_folder / f"{page_prefix}-{n}.png").exists(): n += 1
ProbePng(files, dir, page, n) ==
    IF Exists(files, PngPath(dir, page, n)) THEN ProbePng(files, dir, page, n + 1) ELSE n

\* the path a page render is written to (gui.py 246-251)
PngOutPath(files, dir, page, overwrite) ==
    LET out_png == PngPath(dir, page, 0)
    IN  IF ~overwrite /\ Exists(files, out_png)
        THEN PngPath(dir, page, ProbePng(files, dir, page, FirstPngSuffix))
        ELSE out_png

(***************************************************************************)
(* Messages on log_queue and the run report.                               *)
(***************************************************************************)
NoReport == [batch_mode |-> FALSE, files |-> <<>>, global_errors |-> <<>>]

\* log_cb(msg): a log line, named by what it says
Log(w, label) == [tag |-> "log", w |-> w, label |-> label, cur |-> 0, tot |-> 0, rep |-> NoReport]

\* a tick with its two numbers exchanged
PagesMsgTotalFirst(w, cur, tot) ==
    [tag |-> "__PAGES__", w |-> w, label |-> "", cur |-> tot, tot |-> cur, rep |-> NoReport]

\* progress_pages(cur, tot)
PagesMsg(w, cur, tot) ==
    [tag |-> "__PAGES__", w |-> w, label |-> "", cur |-> cur, tot |-> tot, rep |-> NoReport]

\* progress_files(cur, tot)
FilesMsg(w, cur, tot) ==
    [tag |-> "__FILES__", w |-> w, label |-> "", cur |-> cur, tot |-> tot, rep |-> NoReport]

\* ("__DONE__", error_count, report)
DoneMsg(w, error_count, report) ==
    [tag |-> "__DONE__", w |-> w, label |-> "", cur |-> error_count, tot |-> 0, rep |-> report]

\* the log lines that start with the warning or the error sign
ErrLabels == {"open_failed", "read_failed", "list_failed", "save_failed", "render_failed"}

\* what log_cb adds to error_count for the messages of one step
ErrCount(msgs) ==
    Cardinality({i \in 1..Len(msgs) : msgs[i].tag = "log" /\ msgs[i].label \in ErrLabels})

\* ExtractionReport.__init__
NewReport(batch_mode) == [batch_mode |-> batch_mode, files |-> <<>>, global_errors |-> <<>>]

\* a FileResult with its two counts exchanged
AddFileResultCountsExchanged(report, input_pdf, total_pages, pages_processed, images_extracted, page_pngs, errors) ==
    [report EXCEPT !.files = Append(@,
        [input |-> input_pdf, total_pages |-> total_pages,
         pages_processed |-> pages_processed, images_extracted |-> page_pngs,
         page_pngs |-> images_extracted, errors |-> errors])]

\* ExtractionReport.add_file_result
AddFileResult(report, input_pdf, total_pages, pages_processed, images_extracted, page_pngs, errors) ==
    [report EXCEPT !.files = Append(@,
        [input |-> input_pdf, total_pages |-> total_pages,
         pages_processed |-> pages_processed, images_extracted |-> images_extracted,
         page_pngs |-> page_pngs, errors |-> errors])]

\* ExtractionReport.add_global_error
AddGlobalError(report, msg) == [report EXCEPT !.global_errors = Append(@, msg)]

RECURSIVE Sum(_)
\* sum(...) over a list of numbers
Sum(seq) == IF seq = <<>> THEN 0 ELSE Head(seq) + Sum(Tail(seq))

\* sum(1 for f in self.files if f["errors"])
FilesWithErrors(files) ==
    Sum([i \in 1..Len(files) |-> IF files[i].errors # <<>> THEN 1 ELSE 0])

\* a serialisation that counts the page-level errors instead of the files
\* that have some
ToDictCountingErrors(report) ==
    [batch_mode |-> report.batch_mode,
     file_count |-> Len(report.files),
     files |-> report.files,
     global_errors |-> report.global_errors,
     summary |->
        [total_images |-> Sum([i \in 1..Len(report.files) |-> report.files[i].images_extracted]),
         total_pages_exported |-> Sum([i \in 1..Len(report.files) |-> report.files[i].page_pngs]),
         files_with_errors |-> Sum([i \in 1..Len(report.files) |-> Len(report.files[i].errors)])]]

\* ExtractionReport.to_dict, without the two time stamps
ToDict(report) ==
    [batch_mode |-> report.batch_mode,
     file_count |-> Len(report.files),
     files |-> report.files,
     global_errors |-> report.global_errors,
     summary |->
        [total_images |-> Sum([i \in 1..Len(report.files) |-> report.files[i].images_extracted]),
         total_pages_exported |-> Sum([i \in 1..Len(report.files) |-> report.files[i].page_pngs]),
         files_with_errors |-> FilesWithErrors(report.files)]]

\* no command-line run
NoCli ==
    [pc |-> "off", pages |-> NoneSel, export_pages |-> FALSE, overwrite |-> FALSE,
     page_indices |-> <<>>, idx_i |-> 0, images |-> <<>>, img_pos |-> 0,
     seen_xrefs |-> {}, total_images |-> 0, visited |-> <<>>, failed |-> "none",
     status |-> 0]

(***************************************************************************)
(* The worker thread: _worker, extract_batch_folder, extract_single_pdf.   *)
(***************************************************************************)
\* a thread that has not been created
IdleWorker ==
    [pc |-> "idle", mode |-> "single", src |-> 0, in_folder |-> "", outdir |-> <<>>,
     export_pages |-> FALSE, pages |-> NoneSel, overwrite |-> FALSE,
     error_count |-> 0, report |-> NoReport,
     pdfs |-> <<>>, i |-> 0, pdf |-> 0, out |-> TopDir(<<>>),
     page_indices |-> <<>>, idx_i |-> 0, images |-> <<>>, img_pos |-> 0,
     seen_xrefs |-> {}, errors |-> <<>>, images_total |-> 0, png_total |-> 0,
     pages_done |-> <<>>, count_here |-> 0]

\* threading.Thread(target=self._worker, args=(*worker_args, self._stop_event)):
\* the thread before its first step
Launched(mode, pdf, in_folder, outdir, export_pages, pages, overwrite) ==
    [IdleWorker EXCEPT !.pc = "start", !.mode = mode, !.src = pdf,
                       !.in_folder = in_folder, !.outdir = outdir,
                       !.export_pages = export_pages, !.pages = pages,
                       !.overwrite = overwrite]

\* a library or file-system call may fail while the fault budget lasts
Outcomes == IF faults > 0 THEN {"ok", "fail"} ELSE {"ok"}

Fault(o) == IF o = "fail" THEN 1 ELSE 0

\* one step of thread w: its record becomes next, msgs go on the queue
Step(w, next, msgs) ==
    /\ wk' = [wk EXCEPT ![w] = [next EXCEPT !.error_count = @ + ErrCount(msgs)]]
    /\ log_queue' = log_queue \o msgs

\* the history of thread w with one more event
Recorded(w, e) == [events EXCEPT ![w] = Append(@, e)]

\* a failure that leaves no trace in the list of page errors
PageErrorDropped(errors, page, em) == errors

\* errors.append({"page": idx+1, "error": em})
PageError(errors, page, em) == Append(errors, [page |-> page, error |-> em])

\* a worker that never looks at the flag
NeverCancelled(w) == FALSE

\* a worker that looks at the flag between documents only
CancelledBetweenDocuments(w) == stop[w] /\ wk[w].pc = "batch_loop"

\* stop_event is not None and stop_event.is_set()
Cancelled(w) == stop[w]

\* an exception that ends the thread without its finally block
RaiseUncaught(self) == [self EXCEPT !.pc = "done"]

\* an exception leaves the extractor (and the batch loop, which catches nothing):
\* the try of _worker hands control to its finally block
Raise(self) == [self EXCEPT !.pc = "finally"]

\* a batch that ends with the first document that returns
AfterReturnStop(self) == [self EXCEPT !.pc = "finally"]

\* the state of the thread when extract_single_pdf returns normally, and the
\* progress_files(i, total) that follows the call in extract_batch_folder
AfterReturn(self) ==
    IF self.mode = "batch"
    THEN [self EXCEPT !.pc = "batch_loop", !.i = @ + 1]
    ELSE [self EXCEPT !.pc = "finally"]

ReturnMsgs(w, self) ==
    IF self.mode = "batch" THEN <<FilesMsg(w, self.i, Len(self.pdfs))>> ELSE <<>>

\* _worker up to the call of the extractor, and the head of extract_batch_folder
WorkerStart(w) ==
    LET self == wk[w]
        fresh == [self EXCEPT !.report = NewReport(self.mode = "batch")]
        pdfs == Glob(self.in_folder)
    IN  /\ self.pc = "start"
        /\ IF self.mode = "batch"
           THEN IF pdfs = <<>>
                THEN Step(w, [fresh EXCEPT !.pc = "finally"], <<Log(w, "no_pdfs")>>)
                ELSE Step(w, [fresh EXCEPT !.pc = "batch_loop", !.pdfs = pdfs, !.i = 1],
                          <<FilesMsg(w, 0, Len(pdfs)), Log(w, "batch_found")>>)
           ELSE Step(w, [fresh EXCEPT !.pc = "x_begin", !.pdf = self.src,
                                      !.out = TopDir(self.outdir)], <<>>)
        /\ UNCHANGED <<parseVars, gui, stop, fs, dirs, layout, faults, events>>

\* one turn of the loop of extract_batch_folder, up to the call of extract_single_pdf
BatchLoop(w) ==
    LET self == wk[w]
    IN  /\ self.pc = "batch_loop"
        /\ IF self.i > Len(self.pdfs)
           THEN Step(w, [self EXCEPT !.pc = "finally"], <<>>)
           ELSE IF Cancelled(w)
           THEN Step(w, [self EXCEPT !.pc = "finally"], <<Log(w, "batch_cancelled")>>)
           ELSE Step(w, [self EXCEPT !.pc = "x_begin", !.pdf = self.pdfs[self.i],
                                     !.out = SubDir(self.outdir, self.pdfs[self.i])],
                     <<Log(w, "processing")>>)
        /\ UNCHANGED <<parseVars, gui, stop, fs, dirs, layout, faults, events>>

\* extract_single_pdf, lines 165-185: the output folder, fitz.open, the selector
ExtractBegin(w) ==
    LET self == wk[w]
        sel == IF self.pages = <<>> THEN NoneSel ELSE self.pages
        clean == [self EXCEPT !.errors = <<>>, !.images_total = 0, !.png_total = 0,
                              !.pages_done = <<>>, !.seen_xrefs = {}]
        event(outcome) == [w |-> w, kind |-> "begin", doc |-> self.pdf, outcome |-> outcome]
    IN  /\ self.pc = "x_begin"
        /\ \E mk \in Outcomes, parsed \in {ParsePageRange(sel, Len(layout))} :
             IF mk = "fail"
             THEN \* output_folder.mkdir raises: nothing in the extractor or the batch
                  \* loop catches it
                  /\ Step(w, Raise(clean), <<>>)
                  /\ faults' = faults - 1
                  /\ events' = Recorded(w, event("mkdir_failed"))
                  /\ UNCHANGED dirs
             ELSE /\ dirs' = dirs \cup {self.out}
                  /\ \E op \in Outcomes :
                       /\ faults' = faults - Fault(op)
                       /\ IF op = "fail"
                          THEN /\ Step(w, AfterReturn([clean EXCEPT !.report =
                                          AddGlobalError(@, [doc |-> self.pdf])]),
                                       <<Log(w, "open_failed")>> \o ReturnMsgs(w, self))
                               /\ events' = Recorded(w, event("open_failed"))
                          ELSE IF ~parsed.ok
                          THEN \* int() raises ValueError out of parse_page_range
                               /\ Step(w, Raise(clean), <<>>)
                               /\ events' = Recorded(w, event("parse_failed"))
                          ELSE /\ Step(w, [clean EXCEPT !.pc = "page_loop",
                                                        !.page_indices = parsed.val,
                                                        !.idx_i = 1],
                                       <<PagesMsg(w, 0, Len(parsed.val)), Log(w, "opened")>>)
                               /\ events' = Recorded(w, event("opened"))
        /\ UNCHANGED <<parseVars, gui, stop, fs, layout>>

\* the head of the page loop, lines 187-210: the cancel check, doc[idx],
\* page.get_images
PageLoop(w) ==
    LET self == wk[w]
        total == Len(self.page_indices)
        idx == self.page_indices[self.idx_i]
    IN  /\ self.pc = "page_loop"
        /\ IF self.idx_i > total
           THEN Step(w, [self EXCEPT !.pc = "x_end"], <<>>) /\ UNCHANGED faults
           ELSE IF Cancelled(w)
           THEN Step(w, [self EXCEPT !.pc = "x_end"], <<Log(w, "cancelled")>>)
                /\ UNCHANGED faults
           ELSE \E rd \in Outcomes :
                  IF rd = "fail"
                  THEN /\ Step(w, [self EXCEPT !.errors = PageError(@, idx + 1, "read_failed"),
                                       !.idx_i = @ + 1],
                               <<Log(w, "read_failed"), PagesMsg(w, self.idx_i, total)>>)
                       /\ faults' = faults - 1
                  ELSE \E li \in Outcomes :
                         /\ faults' = faults - Fault(li)
                         /\ IF li = "fail"
                            THEN Step(w, [self EXCEPT !.pc = "img_loop", !.images = <<>>,
                                              !.img_pos = 1, !.count_here = 0,
                                              !.errors = PageError(@, idx + 1, "list_failed")],
                                      <<Log(w, "list_failed")>>)
                            ELSE Step(w, [self EXCEPT !.pc = "img_loop",
                                              !.images = layout[idx + 1],
                                              !.img_pos = 1, !.count_here = 0], <<>>)
        /\ UNCHANGED <<parseVars, gui, stop, fs, dirs, layout, events>>

\* what the history keeps of one image reached by the image loop
ImgEvent(w, self, xref, outcome, path) ==
    [w |-> w, kind |-> "img", doc |-> self.pdf,
     page |-> self.page_indices[self.idx_i] + 1, pos |-> self.img_pos,
     xref |-> xref, outcome |-> outcome, path |-> path]

\* a loop that forgets what it has seen
NeverSeen(seen_xrefs, xref) == FALSE

\* whether the image loop skips this reference: if xref in seen_xrefs: continue
AlreadySeen(seen_xrefs, xref) == xref \in seen_xrefs

\* one turn of the image loop, lines 211-235
ImageStep(w) ==
    LET self == wk[w]
        page == self.page_indices[self.idx_i] + 1
        xref == self.images[self.img_pos]
        out_path == ImgOutPath(fs, self.out, page, self.img_pos, ExtOf(xref), self.overwrite)
        marked == [self EXCEPT !.seen_xrefs = @ \cup {xref}, !.img_pos = @ + 1]
        failed == [marked EXCEPT !.errors = PageError(@, page, "save_failed")]
    IN  /\ self.pc = "img_loop"
        /\ IF self.img_pos > Len(self.images)
           THEN /\ Step(w, [self EXCEPT !.pc = "page_tail"], <<>>)
                /\ UNCHANGED <<fs, faults, events>>
           ELSE IF AlreadySeen(self.seen_xrefs, xref)
           THEN /\ Step(w, [self EXCEPT !.img_pos = @ + 1], <<>>)
                /\ events' = Recorded(w, ImgEvent(w, self, xref, "skipped", NoPath))
                /\ UNCHANGED <<fs, faults>>
           ELSE \E ex \in Outcomes :
                  IF ex = "fail"
                  THEN \* doc.extract_image raises
                       /\ Step(w, failed, <<Log(w, "save_failed")>>)
                       /\ events' = Recorded(w,
                                      ImgEvent(w, self, xref, "extract_failed", NoPath))
                       /\ faults' = faults - 1
                       /\ UNCHANGED fs
                  ELSE \E wr \in Outcomes :
                         /\ faults' = faults - Fault(wr)
                         /\ IF wr = "fail"
                            THEN \* open(out_path, "wb") raises
                                 /\ Step(w, failed, <<Log(w, "save_failed")>>)
                                 /\ events' = Recorded(w,
                                      ImgEvent(w, self, xref, "write_failed", out_path))
                                 /\ UNCHANGED fs
                            ELSE /\ Step(w, [marked EXCEPT !.count_here = @ + 1,
                                                          !.images_total = @ + 1], <<>>)
                                 /\ fs' = WriteFile(fs, out_path,
                                            [by |-> w, doc |-> self.pdf, what |-> xref])
                                 /\ events' = Recorded(w,
                                      ImgEvent(w, self, xref, "written", out_path))
        /\ UNCHANGED <<parseVars, gui, stop, dirs, layout>>

\* the rest of a page, lines 237-261: the count line, the optional render, the
\* progress tick
PageTail(w) ==
    LET self == wk[w]
        total == Len(self.page_indices)
        page == self.page_indices[self.idx_i] + 1
        out_png == PngOutPath(fs, self.out, page, self.overwrite)
        count_line == <<Log(w, IF self.count_here > 0 THEN "extracted" ELSE "no_images")>>
        tick == <<PagesMsg(w, self.idx_i, total)>>
        visited == [self EXCEPT !.pc = "page_loop", !.pages_done = Append(@, page),
                                !.idx_i = @ + 1]
        event(outcome, path) ==
            [w |-> w, kind |-> "png", doc |-> self.pdf, page |-> page, pos |-> 0,
             xref |-> 0, outcome |-> outcome, path |-> path]
    IN  /\ self.pc = "page_tail"
        /\ IF ~self.export_pages
           THEN /\ Step(w, visited, count_line \o tick)
                /\ UNCHANGED <<fs, faults, events>>
           ELSE \E rn \in Outcomes :
                  /\ faults' = faults - Fault(rn)
                  /\ IF rn = "fail"
                     THEN \* page.get_pixmap or pix.save raises
                          /\ Step(w, [visited EXCEPT !.errors = PageError(@, page, "render_failed")],
                                  count_line \o <<Log(w, "render_failed")>> \o tick)
                          /\ events' = Recorded(w, event("render_failed", out_png))
                          /\ UNCHANGED fs
                     ELSE /\ Step(w, [visited EXCEPT !.png_total = @ + 1],
                                  count_line \o <<Log(w, "exported")>> \o tick)
                          /\ fs' = WriteFile(fs, out_png,
                                     [by |-> w, doc |-> self.pdf, what |-> 0])
                          /\ events' = Recorded(w, event("written", out_png))
        /\ UNCHANGED <<parseVars, gui, stop, dirs, layout>>

\* the end of extract_single_pdf, lines 263-277: doc.close, add_file_result
ExtractEnd(w) ==
    LET self == wk[w]
        reported == [self EXCEPT !.report =
                        AddFileResult(@, self.pdf, Len(layout), self.pages_done,
                                      self.images_total, self.png_total, self.errors)]
    IN  /\ self.pc = "x_end"
        /\ Step(w, AfterReturn(reported), ReturnMsgs(w, self))
        /\ UNCHANGED <<parseVars, gui, stop, fs, dirs, layout, faults, events>>

\* the folder _worker hands to write_json: Path(self.out_path.get().strip())
ReportFolder(w) == PathOf(Strip(gui.out_path))

\* the finally block of _worker, lines 702-707: write_json, the report line,
\* the completion message
WorkerFinally(w) ==
    LET self == wk[w]
        out_folder == TopDir(ReportFolder(w))
        p == ReportPath(out_folder)
    IN  /\ self.pc = "finally"
        /\ \E wj \in Outcomes :
             /\ faults' = faults - Fault(wj)
             /\ IF wj = "fail"
                THEN UNCHANGED <<fs, dirs>>
                ELSE /\ dirs' = dirs \cup {out_folder}
                     /\ fs' = WriteFile(fs, p, [by |-> w, doc |-> 0, what |-> ToDict(self.report)])
             /\ events' = Recorded(w,
                  [w |-> w, kind |-> "report", doc |-> 0, page |-> 0, pos |-> 0, xref |-> 0,
                   outcome |-> IF wj = "fail" THEN "write_failed" ELSE "written", path |-> p])
        /\ Step(w, [self EXCEPT !.pc = "done"],
                <<Log(w, "wrote_report"), DoneMsg(w, self.error_count, self.report)>>)
        /\ UNCHANGED <<parseVars, gui, stop, layout>>

\* any step of worker thread w
Worker(w) ==
    \/ WorkerStart(w)
    \/ BatchLoop(w)
    \/ ExtractBegin(w)
    \/ PageLoop(w)
    \/ ImageStep(w)
    \/ PageTail(w)
    \/ ExtractEnd(w)
    \/ WorkerFinally(w)

(***************************************************************************)
(* The front end: PDFExtractorGUI.                                         *)
(***************************************************************************)
\* the DPI range _start accepts
MinDpi == 50

MaxDpi == 1200

\* `if not outdir`: a pathlib.Path defines neither __bool__ nor __len__, so the
\* test is never true, whatever the text of the field
NotPath(outdir) == FALSE

\* in_folder.exists() and in_folder.is_dir()
IsDir(folder) == folder \in {"in", "one", "empty"}

\* pdf.exists() and pdf.suffix.lower() == ".pdf"
IsPdf(pdf) == pdf \in Docs

\* _set_running_state(running): the flag; the widgets it enables or disables and
\* the progress labels are display state, which the model does not keep
SetRunningState(g, running) == [g EXCEPT !.running = running]

\* the thread a Start would create
NextThread == gui.nthreads + 1

\* _start: the Start Extraction button
Start ==
    LET outdir == PathOf(Strip(gui.out_path))
        pages == Strip(gui.pages)
        launch(mode, pdf, in_folder) ==
            /\ NextThread \in Threads
            /\ gui' = [SetRunningState(gui, TRUE) EXCEPT !.stop_event = NextThread,
                                                         !.nthreads = NextThread]
            /\ wk' = [wk EXCEPT ![NextThread] =
                        Launched(mode, pdf, in_folder, outdir, gui.export_pages, pages,
                                 gui.overwrite)]
        refuse(title) ==
            /\ gui' = [gui EXCEPT !.dialog = title]
            /\ UNCHANGED wk
    IN  /\ ~gui.running
        /\ IF NotPath(outdir) THEN refuse("Invalid Output Folder")
           ELSE IF ~(MinDpi <= gui.dpi /\ gui.dpi <= MaxDpi) THEN refuse("Invalid DPI")
           ELSE IF gui.batch_mode
           THEN IF ~IsDir(gui.input_folder) THEN refuse("Invalid Input Folder")
                ELSE launch("batch", 0, gui.input_folder)
           ELSE IF ~IsPdf(gui.pdf_path) THEN refuse("Invalid PDF")
                ELSE launch("single", gui.pdf_path, "")
        /\ UNCHANGED <<parseVars, stop, log_queue, fs, dirs, layout, faults, events>>

\* _cancel: the Cancel button.  When the event is first set while its thread
\* stands between two documents of a batch, the history keeps how far the batch
\* had come.
Cancel ==
    LET t == gui.stop_event
    IN  /\ stop' = IF t # 0 THEN [stop EXCEPT ![t] = TRUE] ELSE stop
        /\ gui' = SetRunningState(gui, FALSE)
        /\ events' = IF t # 0 /\ ~stop[t] /\ wk[t].pc = "batch_loop"
                     THEN Recorded(t, [w |-> t, kind |-> "cancel", i |-> wk[t].i,
                                       report |-> wk[t].report])
                     ELSE events
        /\ UNCHANGED <<parseVars, wk, log_queue, fs, dirs, layout, faults>>

\* the title _finish_dialog shows for a completion message
FinishTitle(msg) ==
    IF msg.cur > 0 \/ \E i \in 1..Len(msg.rep.files) : msg.rep.files[i].errors # <<>>
    THEN "Completed with Warnings"
    ELSE "Completed"

RECURSIVE Handle(_, _)
\* the loop of _drain_log_queue over the items it takes off the queue, in order
Handle(g, items) ==
    IF items = <<>> THEN g
    ELSE LET item == Head(items)
             next == IF item.tag = "__DONE__"
                     THEN [SetRunningState(g, FALSE) EXCEPT !.dialog = FinishTitle(item)]
                     ELSE \* a progress tick or a log line: display only
                          g
         IN  Handle(next, Tail(items))

\* _drain_log_queue: one run of the 50 ms timer that finds the queue non-empty
Drain ==
    /\ log_queue # <<>>
    /\ gui' = Handle(gui, log_queue)
    /\ log_queue' = <<>>
    /\ UNCHANGED <<parseVars, wk, stop, fs, dirs, layout, faults, events>>

\* the folders the user picks as output folder
OutChoices == {<<"B">>}

\* _select_output: the Select Folder button, which no state disables
SelectOutput ==
    /\ \E path \in OutChoices :
         /\ path # gui.out_path
         /\ gui' = [gui EXCEPT !.out_path = path]
    /\ UNCHANGED <<parseVars, wk, stop, log_queue, fs, dirs, layout, faults, events>>

(***************************************************************************)
(* Initial states.                                                         *)
(***************************************************************************)
\* the front end after construction, with the form filled in
Form(out_path, pages, batch_mode, export_pages, overwrite, dpi, pdf_path, input_folder) ==
    [running |-> FALSE, out_path |-> out_path, pages |-> pages,
     batch_mode |-> batch_mode, export_pages |-> export_pages, overwrite |-> overwrite,
     dpi |-> dpi, pdf_path |-> pdf_path, input_folder |-> input_folder,
     stop_event |-> 0, nthreads |-> 0, dialog |-> "none"]

\* the default DPI of the form
DefaultDpi == 200

EmptyFs == [q \in {} |-> 0]

\* a file that was on disk before the run
OldFile == [by |-> 0, doc |-> 0, what |-> 0]

FilesOf(paths) == [q \in paths |-> OldFile]

\* the parser at rest
ParseIdle ==
    /\ p_pages = NoneSel
    /\ p_max = 0
    /\ p_variant = "off"
    /\ p_res = [ok |-> TRUE, val |-> <<>>]
    /\ r_report = NoReport
    /\ cli = NoCli

\* no front end activity, no worker, an empty disk
RunIdle ==
    /\ gui = Form(<<>>, <<>>, FALSE, FALSE, FALSE, DefaultDpi, 0, "")
    /\ wk = [t \in Threads |-> IdleWorker]
    /\ stop = [t \in Threads |-> FALSE]
    /\ log_queue = <<>>
    /\ fs = EmptyFs
    /\ dirs = {}
    /\ layout = <<>>
    /\ faults = 0
    /\ events = [t \in Threads |-> <<>>]

\* a one-page document whose page lists the same image twice
TinyLayout == << <<1, 1>> >>

\* documents with an image shared by two pages, listed twice on a page, and a
\* page without images
Layouts == { << <<1, 1>>, <<2, 1>> >>, << <<1, 2>>, <<>>, <<2>> >> }

\* the page selectors typed into the form
PageTexts ==
    { <<>>, <<"2", ",", "1">>, <<"2">>, <<"1", ",", ",", "2">>, <<"1", "-", "x">> }

OutA == <<"A">>

\* image files already in output folder A: page-001-img-1.png and its suffixed
\* names up to MaxOldSuffix
OldImages ==
    {ImgPath(TopDir(OutA), 1, 1, Png, n) : n \in {0} \cup FirstImgSuffix..MaxOldSuffix}

\* page renders already in output folder A: none, page-001.png, or that and
\* page-001-1.png
OldRenders ==
    { {}, {PngPath(TopDir(OutA), 1, 0)},
      {PngPath(TopDir(OutA), 1, 0), PngPath(TopDir(OutA), 1, 1)} }

\* the forms of the front-end specification: a single document, a single
\* document with a malformed selector, a batch folder, and an empty output field
Forms ==
    { Form(OutA, <<>>, FALSE, FALSE, FALSE, DefaultDpi, 1, ""),
      Form(OutA, <<"x">>, FALSE, FALSE, FALSE, DefaultDpi, 1, ""),
      Form(OutA, <<>>, TRUE, FALSE, FALSE, DefaultDpi, 1, "one"),
      Form(<<>>, <<>>, FALSE, TRUE, FALSE, DefaultDpi, 1, ""),
      Form(OutA, <<>>, FALSE, FALSE, FALSE, MinDpi - 1, 1, ""),
      Form(OutA, <<>>, FALSE, FALSE, FALSE, DefaultDpi, 0, ""),
      Form(OutA, <<>>, TRUE, FALSE, FALSE, DefaultDpi, 1, "none") }

\* library and file-system calls that fail in one behaviour of the front end
\* (none when the form asks for a batch)
GuiFaults == 1

\* the front end from its construction, on small documents
Init ==
    /\ ParseIdle
    /\ gui \in Forms
    /\ faults = IF gui.batch_mode THEN 0 ELSE GuiFaults
    /\ wk = [t \in Threads |-> IdleWorker]
    /\ stop = [t \in Threads |-> FALSE]
    /\ log_queue = <<>>
    /\ fs = EmptyFs
    /\ dirs = {}
    /\ layout = TinyLayout
    /\ events = [t \in Threads |-> <<>>]

Next ==
    \/ Start
    \/ Cancel
    \/ Drain
    \/ SelectOutput
    \/ \E w \in Threads : Worker(w)

Spec == Init /\ [][Next]_vars

\* one worker run from the moment _start has launched it
RunInit ==
    /\ ParseIdle
    /\ \E pages \in PageTexts, export_pages \in BOOLEAN, overwrite \in BOOLEAN,
          batch \in BOOLEAN, folder \in {"in", "empty"} :
         /\ batch => (pages \in {<<>>, <<"1", "-", "x">>} /\ ~export_pages /\ ~overwrite)
         /\ ~batch => folder = "in"
         /\ gui = [SetRunningState(
                     Form(OutA, pages, batch, export_pages, overwrite, DefaultDpi, 1, folder),
                     TRUE) EXCEPT !.stop_event = 1, !.nthreads = 1]
         /\ wk = [t \in Threads |->
                    IF t = 1
                    THEN Launched(IF batch THEN "batch" ELSE "single",
                                  IF batch THEN 0 ELSE 1, IF batch THEN folder ELSE "",
                                  PathOf(OutA), export_pages, Strip(pages), overwrite)
                    ELSE IdleWorker]
         /\ layout \in (IF batch THEN {TinyLayout} ELSE Layouts)
         /\ \E imgs \in SUBSET OldImages, pngs \in OldRenders :
              /\ batch => (imgs = {} /\ pngs = {})
              /\ fs = FilesOf(imgs \cup pngs)
    /\ stop = [t \in Threads |-> FALSE]
    /\ log_queue = <<>>
    /\ dirs = {TopDir(OutA)}
    /\ faults = MaxFaults
    /\ events = [t \in Threads |-> <<>>]

RunNext ==
    \/ Cancel
    \/ \E w \in Threads : Worker(w)

SpecRun == RunInit /\ [][RunNext]_vars

\* a started thread is scheduled: every library call of the worker returns or
\* raises, and the loops of the worker are over finite lists
LiveInit == RunInit /\ fs = EmptyFs

LiveRun == LiveInit /\ [][RunNext]_vars /\ \A w \in Threads : WF_vars(Worker(w))

(***************************************************************************)
(* The parser on its own: every selector up to MaxLen characters against   *)
(* every page count up to MaxPageCount.                                    *)
(***************************************************************************)
Selectors == {NoneSel} \cup UNION {[1..k -> Alphabet] : k \in 0..MaxLen}

ParseInit ==
    /\ p_pages \in Selectors
    /\ p_max \in 0..MaxPageCount
    /\ p_variant = "none"
    /\ p_res = [ok |-> TRUE, val |-> <<>>]
    /\ r_report = NoReport
    /\ cli = NoCli
    /\ RunIdle

\* a call of gui.py's parse_page_range
ParseGui ==
    /\ p_variant = "none"
    /\ p_variant' = "gui"
    /\ p_res' = ParsePageRange(p_pages, p_max)
    /\ UNCHANGED <<p_pages, p_max, r_report, cli>>
    /\ UNCHANGED runVars

\* a call of the command-line parse_page_range
ParseCli ==
    /\ p_variant = "none"
    /\ p_variant' = "cli"
    /\ p_res' = ParsePageRangeCli(p_pages, p_max)
    /\ UNCHANGED <<p_pages, p_max, r_report, cli>>
    /\ UNCHANGED runVars

ParseNext == ParseGui \/ ParseCli

SpecParse == ParseInit /\ [][ParseNext]_vars

(***************************************************************************)
(* The report on its own: any sequence of add_file_result and              *)
(* add_global_error calls on a fresh ExtractionReport.                     *)
(***************************************************************************)
ReportInit ==
    /\ p_pages = NoneSel
    /\ p_max = 0
    /\ p_variant = "off"
    /\ p_res = [ok |-> TRUE, val |-> <<>>]
    /\ r_report \in {NewReport(FALSE), NewReport(TRUE)}
    /\ cli = NoCli
    /\ RunIdle

\* the error lists a FileResult is given
ErrorLists ==
    { <<>>, <<[page |-> 1, error |-> "save_failed"]>>,
      <<[page |-> 1, error |-> "save_failed"], [page |-> 2, error |-> "render_failed"]>> }

\* a call of add_file_result
CallAddFileResult ==
    /\ Len(r_report.files) < MaxFiles
    /\ \E input \in {1}, images \in 0..MaxCount, pngs \in 0..MaxCount, errors \in ErrorLists :
         r_report' = AddFileResult(r_report, input, MaxPageCount, <<>>, images, pngs, errors)
    /\ UNCHANGED <<p_pages, p_max, p_variant, p_res, cli>>
    /\ UNCHANGED runVars

\* a call of add_global_error
CallAddGlobalError ==
    /\ Len(r_report.global_errors) < MaxFiles
    /\ r_report' = AddGlobalError(r_report, [doc |-> 1])
    /\ UNCHANGED <<p_pages, p_max, p_variant, p_res, cli>>
    /\ UNCHANGED runVars

ReportNext == CallAddFileResult \/ CallAddGlobalError

SpecReport == ReportInit /\ [][ReportNext]_vars

\* the selector seen both ways: handed to a parser, and handed to a worker run
SelectorInit == ParseInit \/ RunInit

SpecSelector == SelectorInit /\ [][ParseGui \/ ParseCli \/ RunNext]_vars

(***************************************************************************)
(* The command-line program: main and extract_images_from_pdf of           *)
(* src/main.py (src/pdf-image-extractor.py is the same code).  Nothing in  *)
(* it catches an exception: a call that raises ends the process with a     *)
(* traceback and exit status 1.                                            *)
(***************************************************************************)
\* an uncaught exception: the interpreter prints the traceback and exits with 1
Crash(c, cause) == [c EXCEPT !.pc = "exit", !.failed = cause, !.status = 1]

\* the content of a file written by the command-line run
CliFile(xref) == [by |-> 0, doc |-> 1, what |-> xref]

\* extract_images_from_pdf, lines 56-63: mkdir, fitz.open, parse_page_range
CliBegin ==
    /\ cli.pc = "begin"
    /\ \E mk \in Outcomes, parsed \in {ParsePageRangeCli(cli.pages, Len(layout))} :
         IF mk = "fail"
         THEN /\ cli' = Crash(cli, "mkdir")
              /\ faults' = faults - 1
              /\ UNCHANGED dirs
         ELSE /\ dirs' = dirs \cup {TopDir(OutA)}
              /\ \E op \in Outcomes :
                   /\ faults' = faults - Fault(op)
                   /\ cli' = IF op = "fail" THEN Crash(cli, "open")
                             ELSE IF ~parsed.ok THEN Crash(cli, "parse")
                             ELSE [cli EXCEPT !.pc = "page_loop",
                                              !.page_indices = parsed.val, !.idx_i = 1]
    /\ UNCHANGED <<p_pages, p_max, p_variant, p_res, r_report>>
    /\ UNCHANGED <<gui, wk, stop, log_queue, fs, layout, events>>

\* the head of the page loop, lines 65-72: doc[idx], page.get_images
CliPage ==
    /\ cli.pc = "page_loop"
    /\ IF cli.idx_i > Len(cli.page_indices)
       THEN cli' = [cli EXCEPT !.pc = "exit", !.status = 0] /\ UNCHANGED faults
       ELSE \E rd \in Outcomes :
              IF rd = "fail"
              THEN cli' = Crash(cli, "fetch") /\ faults' = faults - 1
              ELSE \E li \in Outcomes :
                     /\ faults' = faults - Fault(li)
                     /\ cli' = IF li = "fail" THEN Crash(cli, "list")
                               ELSE [cli EXCEPT !.pc = "img_loop", !.img_pos = 1,
                                       !.images = layout[cli.page_indices[cli.idx_i] + 1]]
    /\ UNCHANGED <<p_pages, p_max, p_variant, p_res, r_report>>
    /\ UNCHANGED <<gui, wk, stop, log_queue, fs, dirs, layout, events>>

\* one turn of the image loop, lines 73-97
CliImage ==
    LET page == cli.page_indices[cli.idx_i] + 1
        xref == cli.images[cli.img_pos]
        out_path == ImgOutPath(fs, TopDir(OutA), page, cli.img_pos, ExtOf(xref), cli.overwrite)
    IN  /\ cli.pc = "img_loop"
        /\ IF cli.img_pos > Len(cli.images)
           THEN cli' = [cli EXCEPT !.pc = "page_tail"] /\ UNCHANGED <<fs, faults>>
           ELSE IF AlreadySeen(cli.seen_xrefs, xref)
           THEN cli' = [cli EXCEPT !.img_pos = @ + 1] /\ UNCHANGED <<fs, faults>>
           ELSE \E ex \in Outcomes :
                  IF ex = "fail"
                  THEN /\ cli' = Crash([cli EXCEPT !.seen_xrefs = @ \cup {xref}], "extract")
                       /\ faults' = faults - 1
                       /\ UNCHANGED fs
                  ELSE \E wr \in Outcomes :
                         /\ faults' = faults - Fault(wr)
                         /\ IF wr = "fail"
                            THEN /\ cli' = Crash([cli EXCEPT !.seen_xrefs = @ \cup {xref}],
                                                 "write")
                                 /\ UNCHANGED fs
                            ELSE /\ cli' = [cli EXCEPT !.seen_xrefs = @ \cup {xref},
                                                      !.img_pos = @ + 1,
                                                      !.total_images = @ + 1]
                                 /\ fs' = WriteFile(fs, out_path, CliFile(xref))
        /\ UNCHANGED <<p_pages, p_max, p_variant, p_res, r_report>>
        /\ UNCHANGED <<gui, wk, stop, log_queue, dirs, layout, events>>

\* the rest of a page, lines 97-113: the count line and the optional render
\* (its collision loop tries -1, then -2, ...: the first free of them)
CliPageTail ==
    LET page == cli.page_indices[cli.idx_i] + 1
        out_png == PngOutPath(fs, TopDir(OutA), page, cli.overwrite)
        visited == [cli EXCEPT !.pc = "page_loop", !.idx_i = @ + 1,
                               !.visited = Append(@, page)]
    IN  /\ cli.pc = "page_tail"
        /\ IF ~cli.export_pages
           THEN cli' = visited /\ UNCHANGED <<fs, faults>>
           ELSE \E rn \in Outcomes :
                  /\ faults' = faults - Fault(rn)
                  /\ IF rn = "fail"
                     THEN cli' = Crash(cli, "render") /\ UNCHANGED fs
                     ELSE cli' = visited /\ fs' = WriteFile(fs, out_png, CliFile(0))
        /\ UNCHANGED <<p_pages, p_max, p_variant, p_res, r_report>>
        /\ UNCHANGED <<gui, wk, stop, log_queue, dirs, layout, events>>

\* python main.py input.pdf A [--pages ...] [--export-pages] [--overwrite]
CliInit ==
    /\ p_pages = NoneSel
    /\ p_max = 0
    /\ p_variant = "off"
    /\ p_res = [ok |-> TRUE, val |-> <<>>]
    /\ r_report = NoReport
    /\ \E pages \in PageTexts \cup {NoneSel}, export_pages \in BOOLEAN, overwrite \in BOOLEAN :
         cli = [NoCli EXCEPT !.pc = "begin", !.pages = pages,
                             !.export_pages = export_pages, !.overwrite = overwrite]
    /\ gui = Form(<<>>, <<>>, FALSE, FALSE, FALSE, DefaultDpi, 0, "")
    /\ wk = [t \in Threads |-> IdleWorker]
    /\ stop = [t \in Threads |-> FALSE]
    /\ log_queue = <<>>
    /\ \E imgs \in SUBSET OldImages, pngs \in OldRenders : fs = FilesOf(imgs \cup pngs)
    /\ dirs = {TopDir(OutA)}
    /\ layout \in Layouts
    /\ faults = MaxFaults
    /\ events = [t \in Threads |-> <<>>]

CliNext == CliBegin \/ CliPage \/ CliImage \/ CliPageTail

SpecCli == CliInit /\ [][CliNext]_vars

(***************************************************************************)
(* Properties of the parser (checked under SpecParse).                     *)
(***************************************************************************)
\* the call has been made and returned a list
ParseCalled == p_variant \in {"gui", "cli"}

ParseReturned == ParseCalled /\ p_res.ok

\* the tokens of a selector that are not empty once stripped
TokensOf(sel) ==
    LET parts == Split(sel, ",")
    IN  {Strip(parts[i]) : i \in {j \in 1..Len(parts) : Strip(parts[j]) # <<>>}}

\* the text before and after the first "-" of a range token
LeftOf(tok) == SubSeq(tok, 1, IndexOf(tok, "-") - 1)

RightOf(tok) == SubSeq(tok, IndexOf(tok, "-") + 1, Len(tok))

IsRange(tok) == IndexOf(tok, "-") # 0

\* C7: for every selector on which parse_page_range returns and every page
\* count n >= 0, the returned list is strictly ascending (hence without
\* duplicates) and each element i satisfies 0 <= i < n.
C7_SortedUniqueInRange ==
    ParseReturned =>
        /\ \A i \in 1..Len(p_res.val) : 0 <= p_res.val[i] /\ p_res.val[i] < p_max
        /\ \A i \in 1..(Len(p_res.val) - 1) : p_res.val[i] < p_res.val[i + 1]

\* C7 witness: pages given out of order come back sorted
C7_Witness ==
    /\ p_variant = "gui"
    /\ p_pages = <<"2", ",", "1">>
    /\ p_max = 3
    /\ p_res = [ok |-> TRUE, val |-> <<0, 1>>]

\* a bound forced into [1, n], as the claim reads "clamped into [1, pageCount]"
ClampBoth(x, n) == Min(Max(1, x), n)

\* the 1-based pages a token stands for when both bounds of a range are clamped
\* into [1, n]
ClaimedPages(tok, n) ==
    IF IsRange(tok)
    THEN ClampBoth(IntOf(LeftOf(tok)).val, n)..ClampBoth(IntOf(RightOf(tok)).val, n)
    ELSE {q \in 1..n : q = IntOf(tok).val}

\* the 1-based pages a token stands for when a range a-b is cut down to the
\* pages of a..b that exist: start = max(1, a), end = min(n, b)
CutPages(tok, n) ==
    IF IsRange(tok)
    THEN {q \in 1..n : IntOf(LeftOf(tok)).val <= q /\ q <= IntOf(RightOf(tok)).val}
    ELSE {q \in 1..n : q = IntOf(tok).val}

\* the elements of a list
Elems(seq) == {seq[i] : i \in 1..Len(seq)}

\* C8 as claimed: each range token a-b contributes exactly the pages
\* clamp(a)..clamp(b) with both bounds clamped into [1, pageCount], and a
\* single page outside [1, pageCount] contributes nothing.
C8_Original ==
    (ParseReturned /\ p_pages # NoneSel /\ p_pages # <<>> /\ p_max >= 1) =>
        Elems(p_res.val) =
            {q - 1 : q \in UNION {ClaimedPages(t, p_max) : t \in TokensOf(p_pages)}}

\* C8 as amended: a range token a-b contributes exactly the pages q with
\* max(1, a) <= q <= min(pageCount, b) (the start is only raised to 1, the end
\* only lowered to pageCount), nothing when that interval is empty; a single
\* page outside [1, pageCount] contributes nothing.
C8_RangeCutToDocument ==
    (ParseReturned /\ p_pages # NoneSel /\ p_pages # <<>>) =>
        Elems(p_res.val) =
            {q - 1 : q \in UNION {CutPages(t, p_max) : t \in TokensOf(p_pages)}}

\* C8 witness: a range reaching past the last page is cut at the last page
C8_Witness ==
    /\ p_variant = "gui"
    /\ p_pages = <<"0", "-", "1", "2">>
    /\ p_max = 2
    /\ p_res = [ok |-> TRUE, val |-> <<0, 1>>]

\* C10: for an absent (None) or empty selector and any page count n,
\* parse_page_range returns exactly [0, 1, ..., n-1] in that order.
C10_AllPages ==
    (ParseCalled /\ (p_pages = NoneSel \/ p_pages = <<>>)) =>
        /\ p_res.ok
        /\ Len(p_res.val) = p_max
        /\ \A i \in 1..p_max : p_res.val[i] = i - 1

\* C10 witness: None against three pages
C10_Witness ==
    /\ p_variant = "gui"
    /\ p_pages = NoneSel
    /\ p_max = 3
    /\ p_res = [ok |-> TRUE, val |-> <<0, 1, 2>>]


(***************************************************************************)
(* Properties of one worker run (checked under SpecRun).                   *)
(***************************************************************************)
\* the places in the history of thread w where the image loop reached xref of doc
ImgAt(w, doc, xref) ==
    {i \in 1..Len(events[w]) :
        /\ events[w][i].kind = "img"
        /\ events[w][i].doc = doc
        /\ events[w][i].xref = xref}

\* the image references the model's documents use
Xrefs == 1..3

FirstOf(S) == CHOOSE i \in S : \A j \in S : i <= j

Added(w) == events'[w][Len(events'[w])]

\* thread w has just written an image with overwrite disabled
WroteImage(w) ==
    /\ Len(events'[w]) = Len(events[w]) + 1
    /\ Added(w).kind = "img"
    /\ Added(w).outcome = "written"
    /\ ~wk[w].overwrite

\* C2: with overwrite disabled, an image whose candidate path exists is written
\* to the first non-existing path among <stem>-2.<ext>, <stem>-3.<ext>, ...,
\* and no image write targets a path that existed at the moment of the write.
C2_NoOverwriteFirstFree ==
    [][\A w \in Threads :
         WroteImage(w) =>
           LET e == Added(w)
               ext == e.path.name.ext
               cand == ImgPath(wk[w].out, e.page, e.pos, ext, 0)
               suf == e.path.name.suf
           IN  /\ e.path \notin DOMAIN fs
               /\ e.path \in DOMAIN fs'
               /\ IF cand \notin DOMAIN fs THEN e.path = cand
                  ELSE /\ suf >= 2
                       /\ e.path = ImgPath(wk[w].out, e.page, e.pos, ext, suf)
                       /\ \A k \in 2..(suf - 1) :
                            ImgPath(wk[w].out, e.page, e.pos, ext, k) \in DOMAIN fs
      ]_vars

\* C2 witness: page-001-img-1.png and page-001-img-1-2.png were there, and the
\* image went to page-001-img-1-3.png
C2_Witness ==
    \E i \in 1..Len(events[1]) :
        /\ events[1][i].kind = "img"
        /\ events[1][i].outcome = "written"
        /\ ~wk[1].overwrite
        /\ events[1][i].path = ImgPath(TopDir(OutA), 1, 1, Png, 3)
        /\ fs[ImgPath(TopDir(OutA), 1, 1, Png, 0)] = OldFile
        /\ fs[ImgPath(TopDir(OutA), 1, 1, Png, 2)] = OldFile

(***************************************************************************)
(* Properties of the front end (checked under Spec).                       *)
(***************************************************************************)
\* the threads that have been created and have not reached the end of _worker
Active == {w \in Threads : wk[w].pc \notin {"idle", "done"}}

\* C3 as claimed: at most one worker thread is active at any time, whatever
\* the interleaving of Start, Cancel, queue drain and worker steps: a Start
\* pressed while a started worker has not finished creates no second thread.
C3_AtMostOneActiveWorker == Cardinality(Active) <= 1

(***************************************************************************)
(* Properties of a batch (checked under SpecRun).                          *)
(***************************************************************************)
\* the events of one kind in the history of thread w
EventsOf(w, kind) == {i \in 1..Len(events[w]) : events[w][i].kind = kind}

\* the documents thread w has called extract_single_pdf on, with the outcome
Begun(w, outcome) ==
    {events[w][i].doc : i \in {j \in EventsOf(w, "begin") : events[w][j].outcome = outcome}}

BegunAny(w) == {events[w][i].doc : i \in EventsOf(w, "begin")}

\* the number of FileResults of a report for one document
FileResults(report, doc) ==
    Cardinality({i \in 1..Len(report.files) : report.files[i].input = doc})

GlobalErrors(report, doc) ==
    Cardinality({i \in 1..Len(report.global_errors) : report.global_errors[i].doc = doc})

\* C4: in batch mode, when the cancellation flag is set after k documents
\* have been completed and before document k+1 is started (the history keeps
\* i = k + 1 and the report of that moment), document k+1 and
\* all later documents are never opened or processed, and the report holds
\* exactly the FileResults of the first k documents (one for each of them
\* that could be opened).
C4_CancelBetweenDocuments ==
    \A w \in Threads : \A c \in EventsOf(w, "cancel") :
        LET k == events[w][c].i - 1
            first == {wk[w].pdfs[m] : m \in 1..k}
        IN  /\ wk[w].pc \in {"batch_loop", "finally", "done"}
            /\ BegunAny(w) = first
            /\ wk[w].report = events[w][c].report
            /\ \A i \in 1..Len(wk[w].report.files) : wk[w].report.files[i].input \in first
            /\ \A doc \in first :
                 FileResults(wk[w].report, doc) =
                     IF doc \in Begun(w, "open_failed") THEN 0 ELSE 1
            /\ Len(wk[w].report.files) = k - Cardinality(Begun(w, "open_failed"))

\* C4 witness: a batch of three cancelled after its second document ends with
\* exactly two FileResults and the third document never begun
C4_Witness ==
    \E c \in EventsOf(1, "cancel") :
        /\ wk[1].pc = "done"
        /\ Len(wk[1].pdfs) = 3
        /\ events[1][c].i = 3
        /\ Len(wk[1].report.files) = 2
        /\ wk[1].pdfs[3] \notin BegunAny(1)

\* a batch that ran to the end of its list: not cancelled, no exception
RanThrough(w) ==
    /\ wk[w].mode = "batch"
    /\ wk[w].pc = "done"
    /\ ~stop[w]
    /\ Begun(w, "mkdir_failed") = {}
    /\ Begun(w, "parse_failed") = {}

\* C5: a document that fails to open adds exactly one global error and no
\* FileResult to the report; in batch mode the loop goes on, so that a batch
\* that is neither cancelled nor ended by an exception has called the
\* extractor on every discovered document, and every document that opened
\* has its own FileResult.
C5_UnopenableDocument ==
    \A w \in Threads :
        /\ \A doc \in Docs :
             /\ GlobalErrors(wk[w].report, doc) =
                    IF doc \in Begun(w, "open_failed") THEN 1 ELSE 0
             /\ doc \in Begun(w, "open_failed") => FileResults(wk[w].report, doc) = 0
        /\ RanThrough(w) =>
             \A m \in 1..Len(wk[w].pdfs) :
                 /\ wk[w].pdfs[m] \in BegunAny(w)
                 /\ wk[w].pdfs[m] \notin Begun(w, "open_failed") =>
                        FileResults(wk[w].report, wk[w].pdfs[m]) = 1

\* C5 witness: one unopenable document among three leaves two FileResults and
\* one global error
C5_Witness ==
    /\ RanThrough(1)
    /\ Len(wk[1].pdfs) = 3
    /\ Begun(1, "open_failed") = {wk[1].pdfs[2]}
    /\ Len(wk[1].report.files) = 2
    /\ Len(wk[1].report.global_errors) = 1

\* C15 as claimed: a document whose output folder cannot be created adds one
\* global error and no FileResult to the report, and a batch that was not
\* cancelled still calls the extractor on every discovered document.
C15_FolderFailureIsGlobalError ==
    \A w \in Threads : \A doc \in Begun(w, "mkdir_failed") :
        /\ GlobalErrors(wk[w].report, doc) = 1
        /\ FileResults(wk[w].report, doc) = 0
        /\ (wk[w].mode = "batch" /\ wk[w].pc = "done" /\ ~stop[w]) =>
               \A m \in 1..Len(wk[w].pdfs) : wk[w].pdfs[m] \in BegunAny(w)

\* the pages of the current document that reached the end of the loop body:
\* the selected pages before position idx_i whose fetch did not fail
CompletedPages(self) ==
    SelectSeq([k \in 1..(self.idx_i - 1) |-> self.page_indices[k] + 1],
              LAMBDA pg : [page |-> pg, error |-> "read_failed"] \notin
                              {self.errors[j] : j \in 1..Len(self.errors)})

\* the worker is at the head of the page loop with a selected page left
AtPageHead(w) == wk[w].pc = "page_loop" /\ wk[w].idx_i <= Len(wk[w].page_indices)

\* C16: cancellation is cooperative at page granularity.  The flag of a
\* running worker stays set; a worker that finds it set at the head of the
\* page loop begins no further page (it leaves the loop with its position,
\* its list of completed pages and the files untouched); no step removes a
\* file; and the document then contributes exactly one FileResult whose
\* pages_processed are the pages completed when the flag was observed.
C16_CancelAtPageGranularity ==
    [][\A w \in Threads :
         /\ (stop[w] /\ wk[w].pc \notin {"idle", "done"}) => stop'[w]
         /\ (stop[w] /\ AtPageHead(w) /\ wk'[w] # wk[w]) =>
                /\ wk'[w].pc = "x_end"
                /\ wk'[w].idx_i = wk[w].idx_i
                /\ wk'[w].pages_done = wk[w].pages_done
                /\ wk'[w].errors = wk[w].errors
                /\ fs' = fs
         /\ \A path \in DOMAIN fs : Exists(fs', path)
         /\ (wk[w].pc = "x_end" /\ wk'[w].pc # "x_end") =>
                /\ Len(wk'[w].report.files) = Len(wk[w].report.files) + 1
                /\ FileResults(wk'[w].report, wk[w].pdf) = 1
                /\ wk'[w].report.files[Len(wk'[w].report.files)].input = wk[w].pdf
                /\ wk'[w].report.files[Len(wk'[w].report.files)].pages_processed =
                       CompletedPages(wk[w])
    ]_vars

\* C16 witness: a single-document run cancelled while its second page was in
\* flight: the worker saw the flag before the third page, the image of a
\* completed page is on disk, and the FileResult lists pages 1 and 2 only
C16_Witness ==
    /\ stop[1]
    /\ wk[1].pc = "done"
    /\ Len(wk[1].page_indices) = 3
    /\ wk[1].idx_i = 3
    /\ Log(1, "cancelled") \in {log_queue[k] : k \in 1..Len(log_queue)}
    /\ \E path \in DOMAIN fs : fs[path].by = 1
    /\ Len(wk[1].report.files) = 1
    /\ wk[1].report.files[1].pages_processed = <<1, 2>>

\* thread w takes a step in which a library or file-system call fails
FailsIn(w, pc) == wk[w].pc = pc /\ wk'[w] # wk[w] /\ faults' = faults - 1

\* the list of page errors of thread w gains exactly one entry, for the page
\* in hand
OneMoreError(w) ==
    /\ Len(wk'[w].errors) = Len(wk[w].errors) + 1
    /\ SubSeq(wk'[w].errors, 1, Len(wk[w].errors)) = wk[w].errors
    /\ wk'[w].errors[Len(wk'[w].errors)].page = wk[w].page_indices[wk[w].idx_i] + 1

\* the page renders thread w has attempted, as page numbers
RendersTried(w) == {events[w][i].page : i \in EventsOf(w, "png")}

\* C17: page-level failures are non-fatal in the GUI extractor.  A failed
\* fetch adds one page error and moves to the next selected page; a failed
\* listing adds one and goes on with the page; a failed extraction or write
\* of an image adds one and moves to the next image of the page; a failed
\* render adds one and ends the page as visited; a step without a failure adds
\* no page error.  The image loop always ends in the render step, every
\* completed page of a run that exports pages had its render attempted, and a
\* document that was not cancelled leaves the page loop only after every
\* selected page was visited.
C17_PageFailuresNonFatal ==
    [][\A w \in Threads :
         /\ FailsIn(w, "page_loop") =>
                /\ OneMoreError(w)
                /\ \/ wk'[w].pc = "page_loop" /\ wk'[w].idx_i = wk[w].idx_i + 1
                   \/ wk'[w].pc = "img_loop" /\ wk'[w].idx_i = wk[w].idx_i
         /\ FailsIn(w, "img_loop") =>
                /\ OneMoreError(w)
                /\ wk'[w].pc = "img_loop"
                /\ wk'[w].idx_i = wk[w].idx_i
                /\ wk'[w].img_pos = wk[w].img_pos + 1
         /\ FailsIn(w, "page_tail") =>
                /\ OneMoreError(w)
                /\ wk'[w].pc = "page_loop"
                /\ wk'[w].idx_i = wk[w].idx_i + 1
                /\ wk'[w].pages_done = Append(wk[w].pages_done,
                                              wk[w].page_indices[wk[w].idx_i] + 1)
         /\ (wk[w].pc \in {"page_loop", "img_loop", "page_tail"} /\ faults' = faults) =>
                wk'[w].errors = wk[w].errors
         /\ (wk[w].pc = "img_loop" /\ wk'[w].pc # "img_loop") => wk'[w].pc = "page_tail"
         /\ wk'[w].export_pages =>
                \A k \in 1..Len(wk'[w].pages_done) : wk'[w].pages_done[k] \in RendersTried(w)'
         /\ (wk'[w].pc = "x_end" /\ ~stop[w]) =>
                /\ wk'[w].idx_i = Len(wk'[w].page_indices) + 1
                /\ Len(CompletedPages(wk'[w])) + Len(wk'[w].errors) >=
                       Len(wk'[w].page_indices)
                /\ wk'[w].pages_done = CompletedPages(wk'[w])
    ]_vars

\* C17 witness: a run over three pages in which the fetch of page 1 and the
\* render of page 2 failed, and page 3 was still visited and rendered
C17_Witness ==
    /\ wk[1].pc = "done"
    /\ ~stop[1]
    /\ wk[1].page_indices = <<0, 1, 2>>
    /\ wk[1].errors = <<[page |-> 1, error |-> "read_failed"],
                        [page |-> 2, error |-> "render_failed"]>>
    /\ wk[1].pages_done = <<2, 3>>
    /\ wk[1].png_total = 1
    /\ Len(wk[1].report.files) = 1
    /\ wk[1].report.files[1].errors = wk[1].errors

\* C17 witness of the image loop: the first image of a page failed and a later
\* image of the same page was written
C17_ImageWitness ==
    /\ wk[1].pc = "done"
    /\ \E i, j \in EventsOf(1, "img") :
         /\ i < j
         /\ events[1][i].page = events[1][j].page
         /\ events[1][i].outcome \in {"extract_failed", "write_failed"}
         /\ events[1][j].outcome = "written"

(***************************************************************************)
(* Completion of a run (checked under LiveRun).                            *)
(***************************************************************************)
\* what thread w has put on the queue, oldest first
PutBy(w) == SelectSeq(log_queue, LAMBDA m : m.w = w)

DonesOf(w) == {i \in 1..Len(PutBy(w)) : PutBy(w)[i].tag = "__DONE__"}

\* the thread is over: one attempt to write the report, then one completion
\* message, the last thing the thread put on the queue
Completed(w) ==
    /\ Cardinality(EventsOf(w, "report")) = 1
    /\ DonesOf(w) = {Len(PutBy(w))}
    /\ Len(PutBy(w)) >= 2
    /\ PutBy(w)[Len(PutBy(w)) - 1].label = "wrote_report"

AllTokens(sel) == LET parts == Split(sel, ",") IN {Strip(parts[i]) : i \in 1..Len(parts)}

AllDigits(s) == s # <<>> /\ \A i \in 1..Len(s) : s[i] \in Digits

\* what int() takes: digits, a sign before them, blanks around
Numeral(s) ==
    LET t == Strip(s)
    IN  AllDigits(t) \/ (t # <<>> /\ t[1] = "-" /\ AllDigits(Tail(t)))

\* a page number, or two numbers around the first "-"
WellFormed(tok) ==
    IF IsRange(tok) THEN Numeral(LeftOf(tok)) /\ Numeral(RightOf(tok)) ELSE Numeral(tok)

Given(sel) == sel # NoneSel /\ sel # <<>>

\* thread w has written no image and no page render, and has no FileResult
NothingWritten(w) ==
    /\ \A i \in EventsOf(w, "img") \cup EventsOf(w, "png") : events[w][i].outcome # "written"
    /\ wk[w].report.files = <<>>
    /\ \A path \in DOMAIN fs :
         path.name.kind \in {"img", "png"} => (fs[path] = OldFile \/ fs[path].by # w)

\* C9 as claimed: a selector with any token that is not a well-formed page
\* number or range, the empty token of "1,,3" included, makes the parse fail,
\* and a run given such a selector writes no image, no page render and no
\* FileResult.
C9_Original ==
    /\ (ParseCalled /\ Given(p_pages) /\ \E tok \in AllTokens(p_pages) : ~WellFormed(tok))
           => ~p_res.ok
    /\ \A w \in Threads :
         (Given(wk[w].pages) /\ \E tok \in AllTokens(wk[w].pages) : ~WellFormed(tok))
           => NothingWritten(w)

\* C9 as amended: a token that is not empty once stripped and is neither an
\* integer nor two integers around its first "-" makes every parser fail, and
\* a run given such a selector ends with that failure before any image, page
\* render or FileResult; a token that is empty once stripped makes the
\* command-line parsers fail and is skipped by the parser of gui.py.
C9_BadTokenFailsParse ==
    /\ (ParseCalled /\ Given(p_pages)) =>
          /\ (\E tok \in TokensOf(p_pages) : ~WellFormed(tok)) => ~p_res.ok
          /\ (p_variant = "cli" /\ <<>> \in AllTokens(p_pages)) => ~p_res.ok
          /\ (p_variant = "gui" /\ \A tok \in TokensOf(p_pages) : WellFormed(tok)) => p_res.ok
    /\ \A w \in Threads :
         (Given(wk[w].pages) /\ \E tok \in TokensOf(wk[w].pages) : ~WellFormed(tok)) =>
            /\ NothingWritten(w)
            /\ wk[w].pc \notin {"page_loop", "img_loop", "page_tail", "x_end"}
            /\ Begun(w, "opened") = {}
            /\ wk[w].pc = "done" =>
                 (Begun(w, "parse_failed") # {} \/ Begun(w, "mkdir_failed") # {}
                    \/ BegunAny(w) = Begun(w, "open_failed"))

\* C9 witness: the run given "1-x" has opened its document, failed in the
\* parser and ended with nothing written
C9_Witness ==
    /\ wk[1].pc = "done"
    /\ wk[1].pages = <<"1", "-", "x">>
    /\ Begun(1, "parse_failed") = {1}
    /\ NothingWritten(1)

(***************************************************************************)
(* The serialised report (checked under SpecReport).                       *)
(***************************************************************************)
\* the units counted when every FileResult i contributes n(i) of them
Units(files, n(_)) == {u \in (1..Len(files)) \X (1..MaxCount) : u[2] <= n(u[1])}

\* C11: after any sequence of add_file_result and add_global_error calls the
\* serialized report has file_count equal to the number of FileResults,
\* summary.total_images equal to the sum of their images_extracted,
\* summary.total_pages_exported equal to the sum of their page_pngs and
\* summary.files_with_errors equal to the number of FileResults with a
\* non-empty error list; the FileResults and global errors are those added, in
\* the order of the calls.
C11_SummaryCounts ==
    LET d == ToDict(r_report)
        files == r_report.files
    IN  /\ d.file_count = Cardinality(DOMAIN files)
        /\ d.files = files
        /\ d.global_errors = r_report.global_errors
        /\ d.summary.total_images =
              Cardinality(Units(files, LAMBDA i : files[i].images_extracted))
        /\ d.summary.total_pages_exported =
              Cardinality(Units(files, LAMBDA i : files[i].page_pngs))
        /\ d.summary.files_with_errors =
              Cardinality({i \in DOMAIN files : Len(files[i].errors) >= 1})

\* C11 witness: two FileResults, one of them with two page errors, and one
\* global error
C11_Witness ==
    /\ p_variant = "off"
    /\ Len(r_report.files) = 2
    /\ Len(r_report.global_errors) = 1
    /\ r_report.files[1].errors = <<>>
    /\ Len(r_report.files[2].errors) = 2
    /\ r_report.files[1].images_extracted = 2
    /\ r_report.files[2].images_extracted = 1
    /\ ToDict(r_report).summary =
          [total_images |-> 3, total_pages_exported |-> 0, files_with_errors |-> 1]

(***************************************************************************)
(* Overwrite enabled (checked under SpecRun).                              *)
(***************************************************************************)
\* thread w has just written an image or a page render
Wrote(w) ==
    /\ Len(events'[w]) = Len(events[w]) + 1
    /\ Added(w).kind \in {"img", "png"}
    /\ Added(w).outcome = "written"

\* C12: with overwrite enabled, every image and page-render write goes to the
\* unsuffixed candidate path (page-NNN-img-P.ext or page-NNN.png) whether or
\* not it already exists, and after the write the file at that path holds the
\* new content.
C12_OverwriteReusesCandidate ==
    [][\A w \in Threads :
         (Wrote(w) /\ wk[w].overwrite) =>
            LET e == Added(w)
                candidate == IF e.kind = "img"
                             THEN ImgPath(wk[w].out, e.page, e.pos, SafeName(ExtOf(e.xref)), 0)
                             ELSE PngPath(wk[w].out, e.page, 0)
            IN  /\ e.path = candidate
                /\ e.path.name.suf = 0
                /\ fs'[candidate] = [by |-> w, doc |-> e.doc, what |-> e.xref]
                /\ \A q \in DOMAIN fs' : q # candidate => (q \in DOMAIN fs /\ fs'[q] = fs[q])
      ]_vars

\* C12 witness: page-001.png was there (page-001-1.png, which only comes with
\* it, still is), and the render of this run has replaced it; the image of the
\* page went to page-001-img-1.png
C12_Witness ==
    /\ wk[1].overwrite
    /\ wk[1].pc = "done"
    /\ PngPath(TopDir(OutA), 1, 1) \in DOMAIN fs
    /\ fs[PngPath(TopDir(OutA), 1, 1)] = OldFile
    /\ fs[PngPath(TopDir(OutA), 1, 0)].by = 1
    /\ ImgPath(TopDir(OutA), 1, 1, Png, 0) \in DOMAIN fs
    /\ fs[ImgPath(TopDir(OutA), 1, 1, Png, 0)].by = 1

(***************************************************************************)
(* Page renders with overwrite disabled (checked under SpecRun).           *)
(***************************************************************************)
\* C13 as claimed: with overwrite disabled, a page render whose candidate
\* path page-NNN.png already exists is written to the first non-existing path
\* among page-NNN-2.png, page-NNN-3.png, ..., the collision policy of images.
C13_RenderProbesFromTwo ==
    [][\A w \in Threads :
         (Wrote(w) /\ Added(w).kind = "png" /\ ~wk[w].overwrite
            /\ PngPath(wk[w].out, Added(w).page, 0) \in DOMAIN fs) =>
            LET e == Added(w)
                suf == e.path.name.suf
            IN  /\ suf >= 2
                /\ e.path = PngPath(wk[w].out, e.page, suf)
                /\ e.path \notin DOMAIN fs
                /\ \A k \in 2..(suf - 1) : PngPath(wk[w].out, e.page, k) \in DOMAIN fs
      ]_vars

(***************************************************************************)
(* The command-line program (checked under SpecCli).                       *)
(***************************************************************************)
\* C14 as claimed: in the command-line entry points a failure to fetch one
\* page, extract one image or render one page is logged and does not stop the
\* run: the remaining selected pages are still processed and the process
\* exits with a success status.
C14_CliSurvivesPageFailures ==
    (cli.pc = "exit" /\ cli.failed \in {"fetch", "extract", "render"}) =>
        /\ cli.status = 0
        /\ cli.idx_i > Len(cli.page_indices)

(***************************************************************************)
(* Page progress (checked under SpecRun, where nothing drains the queue).  *)
(***************************************************************************)
\* where the messages of the document in hand start: after the last
\* "Processing [i/total]" line of a batch, or at the start of a single run
DocStart(w) ==
    Greatest({0} \cup {k \in 1..Len(PutBy(w)) : PutBy(w)[k] = Log(w, "processing")})

\* the page-progress messages thread w has put for the document in hand, as
\* pairs (cur, tot)
Ticks(w) ==
    LET since == SubSeq(PutBy(w), DocStart(w) + 1, Len(PutBy(w)))
        pages == SelectSeq(since, LAMBDA m : m.tag = "__PAGES__")
    IN  [k \in 1..Len(pages) |-> <<pages[k].cur, pages[k].tot>>]

\* (0, m), (1, m), ..., (n, m)
TicksUpTo(n, m) == [k \in 1..(n + 1) |-> <<k - 1, m>>]

\* thread w is inside extract_single_pdf, past the selector
InDocument(w) == wk[w].pc \in {"page_loop", "img_loop", "page_tail", "x_end"}

\* thread w left the page loop at a selected page, on finding the flag set
CancelObserved(w) ==
    wk[w].pc = "x_end" /\ wk[w].idx_i <= Len(wk[w].page_indices)

\* C18 as claimed: (0, m) first, then one tick (i, m) per visited page in
\* increasing i, the page at which cancellation was observed included.
C18_Original ==
    \A w \in Threads : InDocument(w) =>
        Ticks(w) = TicksUpTo(IF CancelObserved(w) THEN wk[w].idx_i ELSE wk[w].idx_i - 1,
                             Len(wk[w].page_indices))

\* C18: for a document with m selected pages the extractor emits (0, m)
\* first and then exactly one tick (i, m) after the i-th selected page is
\* visited, whether the page succeeded or failed; the page at which
\* cancellation was observed is not visited and gets no tick; the ticks come
\* in strictly increasing i and never exceed m.
C18_OneTickPerVisitedPage ==
    \A w \in Threads : InDocument(w) =>
        /\ Ticks(w) = TicksUpTo(wk[w].idx_i - 1, Len(wk[w].page_indices))
        /\ wk[w].idx_i - 1 <= Len(wk[w].page_indices)
        /\ Len(wk[w].pages_done) <= wk[w].idx_i - 1

\* C18 witness: of three selected pages the first failed to be fetched, the
\* second was completed, and the flag was found set at the third: the ticks
\* are (0, 3), (1, 3), (2, 3)
C18_Witness ==
    /\ CancelObserved(1)
    /\ Len(wk[1].page_indices) = 3
    /\ wk[1].idx_i = 3
    /\ wk[1].pages_done = <<2>>
    /\ Ticks(1) = <<<<0, 3>>, <<1, 3>>, <<2, 3>>>>

(***************************************************************************)
(* The worker and the state of the front end (checked under Spec).         *)
(***************************************************************************)
\* the files a step creates or replaces
Touched == {path \in DOMAIN fs' : ~Exists(fs, path) \/ fs'[path] # fs[path]}

\* C19 as claimed: the worker thread communicates with the front end only
\* through log_queue and in no step reads or writes state the front end owns.
\* A step of the worker then leaves the form alone, only appends to the queue,
\* and is settled by what the thread was given at its start: every file it
\* writes lies under the output folder of its arguments, whatever the
\* output-folder field holds at that moment.
C19_WorkerUsesOnlyTheQueue ==
    [][\A w \in Threads : wk'[w] # wk[w] /\ wk[w].pc # "idle" =>
         /\ gui' = gui
         /\ SubSeq(log_queue', 1, Len(log_queue)) = log_queue
         /\ \A path \in Touched : path.dir.root = wk[w].outdir
    ]_vars

\* the report files thread w has tried to write
ReportsOf(w) == {events[w][i].path : i \in EventsOf(w, "report")}

\* C20 as claimed: the report of a run is written to extraction_report.json
\* inside the output folder the run was started with, whatever the user does
\* to the output-folder field while the worker runs.
C20_ReportInStartFolder ==
    \A w \in Threads : \A path \in ReportsOf(w) :
        path = ReportPath(TopDir(wk[w].outdir))

(***************************************************************************)
(* The validation of _start (checked under Spec).                          *)
(***************************************************************************)
\* the form holds something _start is to refuse
InvalidForm(g) ==
    \/ Strip(g.out_path) = <<>>
    \/ ~(MinDpi <= g.dpi /\ g.dpi <= MaxDpi)
    \/ g.batch_mode /\ ~IsDir(g.input_folder)
    \/ ~g.batch_mode /\ ~IsPdf(g.pdf_path)

\* C21 as claimed: Start validates its inputs before launching.  When the
\* output-folder field is empty, the DPI is outside 50..1200 or the input
\* document or folder is invalid, _start shows an error, leaves the running
\* flag false and starts no worker thread.
C21_StartValidates ==
    [][(Start /\ InvalidForm(gui)) =>
         /\ gui'.dialog \in {"Invalid Output Folder", "Invalid DPI",
                             "Invalid Input Folder", "Invalid PDF"}
         /\ ~gui'.running
         /\ wk' = wk
    ]_vars

\* the refusals _start does make: a DPI outside the range, an input folder
\* that is no folder, a file that is no PDF
C21_OtherRefusals ==
    [][(Start /\ InvalidForm(gui) /\ Strip(gui.out_path) # <<>>) =>
         /\ gui'.dialog \in {"Invalid DPI", "Invalid Input Folder", "Invalid PDF"}
         /\ ~gui'.running
         /\ wk' = wk
    ]_vars

(***************************************************************************)
(* The counts of a FileResult (checked under SpecRun).                     *)
(***************************************************************************)
\* the writes of one kind ("img" or "png") thread w completed for a document
WritesOf(w, doc, kind) ==
    {i \in EventsOf(w, kind) : events[w][i].doc = doc /\ events[w][i].outcome = "written"}

\* the files of one kind on disk that thread w wrote for a document
OnDisk(w, doc, kind) ==
    {path \in DOMAIN fs : path.name.kind = kind /\ fs[path].by = w /\ fs[path].doc = doc}

\* the distinct image references listed on the pages thread w visited
ListedRefs(w, doc) ==
    {events[w][i].xref : i \in {j \in EventsOf(w, "img") : events[w][j].doc = doc}}

=============================================================================
